---- MODULE Spec2Model ----
(***************************************************************************)
(* Quick-AI-Inference: two standalone scripts.                             *)
(*   image-support-with-openai-api.py         (the vision script)          *)
(*   semantic-segmentation-huggingface-api.py (the segmentation script)    *)
(* Text is a sequence of one-character strings, bytes are naturals below   *)
(* 256, an image is the sequence of its pixels in row-major order, a JSON  *)
(* object is a record (a missing key is a missing field).                  *)
(***************************************************************************)
EXTENDS Integers, Sequences, FiniteSets, TLC

VARIABLES
    script,                 \* which script this run executes
    pc,                     \* position in the script
    file,                   \* the image file on disk: whether it exists, and its bytes
    posts,                  \* number of requests.post calls issued so far
    response,               \* what requests.post returned (NoResponse before)
    raised,                 \* the exception raised, if any (NoValue if none)
    stdout,                 \* what was printed, in order
    exit_code,              \* <<>> while running, <<n>> once the process ended
    base64_image,           \* vision: encode_image's return value
    response_data,          \* vision: make_text_image_request's return value
    contents,               \* vision: read_content's return value
    idx,                    \* position of the running for loop (1-based)
    orig_np,                \* segmentation: np.array(original_image)
    segmentation_results,   \* segmentation: the results iterated so far / at all
    overlay,                \* segmentation: the overlay buffer
    label_to_color,         \* segmentation: label -> RGB triple
    mask_np,                \* segmentation: the decoded mask of this iteration
    binary_mask,            \* segmentation: mask_np > 128
    blended,                \* segmentation: the blended image
    saved,                  \* segmentation: the figure rendered and saved, with its legend
    seenAll,                \* history: distinct labels of all iterated results, first-seen order
    seenPainted             \* history: distinct labels of the non-skipped results, first-seen order

vars == <<script, pc, file, posts, response, raised, stdout, exit_code,
          base64_image, response_data, contents, idx, orig_np,
          segmentation_results, overlay, label_to_color, mask_np,
          binary_mask, blended, saved, seenAll, seenPainted>>

NoValue == <<"None">>
\* No response yet: status_code 0 is no HTTP status.
NoResponse == [status_code |-> 0, text |-> << >>, is_json |-> FALSE, json |-> << >>]
NotSaved == [done |-> FALSE, image |-> << >>, legend |-> {}]
NoFile == [exists |-> FALSE, bytes |-> << >>]
FileOf(bytes) == [exists |-> TRUE, bytes |-> bytes]

-----------------------------------------------------------------------------
(* Bounds of the model *)

MaxBytes == 3          \* longest byte string given to b64encode
MaxChoices == 2        \* most choices in a chat response
MaxResults == 2        \* most entries in a segmentation response
NPix == 2              \* pixels of the original image (2 rows of 1 pixel)
MaskPix == 1           \* pixels of the mask whose threshold is enumerated over 0..255
MaxColorResults == 11  \* results given to a direct call of plot_segmentation_map
MaxSkips == 1          \* of which this many with a mask of an unexpected type

-----------------------------------------------------------------------------
(* Program constants *)

palette == <<
    <<230, 25, 75>>,
    <<60, 180, 75>>,
    <<255, 225, 25>>,
    <<0, 130, 200>>,
    <<245, 130, 48>>,
    <<145, 30, 180>>,
    <<70, 240, 240>>,
    <<240, 50, 230>>,
    <<210, 245, 60>>,
    <<250, 190, 190>> >>

MaskThreshold == 128
StatusOK == 200
\* alpha = 0.5, as the exact fraction AlphaNum / AlphaDen
AlphaNum == 1
AlphaDen == 2
Black == <<0, 0, 0>>
UInt8 == 256

-----------------------------------------------------------------------------
(* base64 *)

B64Alphabet == <<
    "A","B","C","D","E","F","G","H","I","J","K","L","M","N","O","P",
    "Q","R","S","T","U","V","W","X","Y","Z","a","b","c","d","e","f",
    "g","h","i","j","k","l","m","n","o","p","q","r","s","t","u","v",
    "w","x","y","z","0","1","2","3","4","5","6","7","8","9","+","/" >>
B64Pad == "="

B64Char(n) == B64Alphabet[n + 1]
B64Index(c) == (CHOOSE i \in 1..Len(B64Alphabet) : B64Alphabet[i] = c) - 1

RECURSIVE B64EncodeShift(_)
B64EncodeShift(bs) ==
    IF Len(bs) = 0 THEN << >>
    ELSE IF Len(bs) = 1 THEN
        LET n == bs[1] * 4
        IN  <<B64Char(n \div 64), B64Char(n % 64), B64Pad, B64Pad>>
    ELSE IF Len(bs) = 2 THEN
        LET n == (bs[1] * 256 + bs[2]) * 4
        IN  <<B64Char(n \div 4096), B64Char((n \div 64) % 64), B64Char(n % 64), B64Pad>>
    ELSE
        LET n == bs[1] * 65536 + bs[2] * 256 + bs[3]
        IN  <<B64Char(n \div 262144), B64Char((n \div 4096) % 64),
              B64Char((n \div 64) % 64), B64Char(n % 64)>>
            \o B64EncodeShift(SubSeq(bs, 4, Len(bs)))

\* base64.b64encode(bytes).decode('utf-8'): 3 bytes -> 4 characters, the last
\* group of 1 or 2 bytes zero-filled to 12 or 18 bits and padded with "=".
RECURSIVE B64Encode(_)
B64Encode(bs) ==
    IF Len(bs) = 0 THEN << >>
    ELSE IF Len(bs) = 1 THEN
        LET n == bs[1] * 16
        IN  <<B64Char(n \div 64), B64Char(n % 64), B64Pad, B64Pad>>
    ELSE IF Len(bs) = 2 THEN
        LET n == (bs[1] * 256 + bs[2]) * 4
        IN  <<B64Char(n \div 4096), B64Char((n \div 64) % 64), B64Char(n % 64), B64Pad>>
    ELSE
        LET n == bs[1] * 65536 + bs[2] * 256 + bs[3]
        IN  <<B64Char(n \div 262144), B64Char((n \div 4096) % 64),
              B64Char((n \div 64) % 64), B64Char(n % 64)>>
            \o B64Encode(SubSeq(bs, 4, Len(bs)))

\* base64.b64decode of well-formed base64 text: 4 characters -> 3 bytes, a
\* padded last group -> 1 or 2 bytes.
RECURSIVE B64Decode(_)
B64Decode(cs) ==
    IF Len(cs) < 4 THEN << >>
    ELSE IF cs[3] = B64Pad THEN
        LET n == B64Index(cs[1]) * 64 + B64Index(cs[2])
        IN  <<(n \div 16) % 256>>
    ELSE IF cs[4] = B64Pad THEN
        LET n == B64Index(cs[1]) * 4096 + B64Index(cs[2]) * 64 + B64Index(cs[3])
        IN  <<(n \div 1024) % 256, (n \div 4) % 256>>
    ELSE
        LET n == B64Index(cs[1]) * 262144 + B64Index(cs[2]) * 4096
                 + B64Index(cs[3]) * 64 + B64Index(cs[4])
        IN  <<n \div 65536, (n \div 256) % 256, n % 256>>
            \o B64Decode(SubSeq(cs, 5, Len(cs)))

-----------------------------------------------------------------------------
(* Text helpers *)

Digits == <<"0","1","2","3","4","5","6","7","8","9">>

\* str(n) of a natural number, as f"{response.status_code}" formats it
RECURSIVE IntStr(_)
IntStr(n) ==
    IF n < 10 THEN <<Digits[n + 1]>>
    ELSE IntStr(n \div 10) \o <<Digits[(n % 10) + 1]>>

\* sub in text
Contains(text, sub) ==
    \E i \in 1..(Len(text) - Len(sub) + 1) : SubSeq(text, i, i + Len(sub) - 1) = sub

-----------------------------------------------------------------------------
(* Inputs the environment may supply. A response carries is_json: whether  *)
(* response.json() can parse its body, and json: what it then returns.     *)

SeqsUpTo(S, n) == UNION {[1..k -> S] : k \in 0..n}

\* The image file of a script run: absent, empty, or a few bytes.
JpegFile == FileOf(<<255, 216, 255, 224>>)
ScriptFiles == {NoFile, FileOf(<< >>), JpegFile}

\* Outcome of requests.post when the connection itself fails.
ConnectionError == [exception |-> "ConnectionError"]

Choices == {
    [message |-> [content |-> "a"]],
    [message |-> [content |-> "b"]],
    [message |-> [role |-> "assistant"]],
    [index |-> 0] }

ErrorBody == [error |-> "invalid_api_key"]

VisionResponses ==
    {[status_code |-> StatusOK, is_json |-> TRUE, json |-> [choices |-> cs]]
        : cs \in SeqsUpTo(Choices, MaxChoices)}
    \cup {[status_code |-> 401, is_json |-> TRUE, json |-> ErrorBody],
          [status_code |-> StatusOK, is_json |-> TRUE, json |-> ErrorBody],
          [status_code |-> 502, is_json |-> FALSE, json |-> ErrorBody]}

Pixels == 1..NPix
MaskVals == {50, 200}
\* What the image file decodes to: gray 100 everywhere
OrigImages == {[p \in Pixels |-> <<100, 100, 100>>]}

StrMask(chars) == [type |-> "str", value |-> chars]
ImageMask(px) == [type |-> "Image", value |-> px]
NullMask == [type |-> "NoneType"]

\* Masks that can arrive in a JSON response: base64 text of a mask image, the
\* empty string, or null.
JsonMasks ==
    {StrMask(B64Encode(px)) : px \in [Pixels -> MaskVals]} \cup {StrMask(<< >>), NullMask}

Labels == {"road", "sky"}
\* Entries with a label and any mask, and entries without a label whose mask
\* is null or marks every pixel
SegEntries ==
    {[label |-> l, mask |-> m] : l \in Labels, m \in JsonMasks}
    \cup {[mask |-> m] : m \in {NullMask, StrMask(B64Encode([p \in Pixels |-> 255]))}}

ErrorTexts == {
    << >>,
    <<"s","e","r","v","e","r"," ","e","r","r","o","r">>,
    <<"N","o","t"," ","F","o","u","n","d">> }

ErrorStatuses == {201, 404, 500}

SegResponses ==
    {[status_code |-> StatusOK, text |-> <<"[","]">>, is_json |-> TRUE, json |-> rs]
        : rs \in SeqsUpTo(SegEntries, MaxResults)}
    \cup {[status_code |-> s, text |-> t, is_json |-> FALSE, json |-> << >>]
        : s \in ErrorStatuses \cup {StatusOK}, t \in ErrorTexts}

-----------------------------------------------------------------------------
(* image-support-with-openai-api.py *)

HasContent(choice) ==
    /\ "message" \in DOMAIN choice
    /\ "content" \in DOMAIN choice.message

Reverse(s) == [i \in 1..Len(s) |-> s[Len(s) + 1 - i]]

read_content_reversed(data) ==
    IF "choices" \notin DOMAIN data THEN [raised |-> FALSE, value |-> << >>]
    ELSE IF \E i \in 1..Len(data.choices) : ~HasContent(data.choices[i])
        THEN [raised |-> TRUE, value |-> <<"KeyError">>]
    ELSE [raised |-> FALSE,
          value |-> Reverse([i \in 1..Len(data.choices) |-> data.choices[i].message.content])]

read_content_lenient(data) ==
    IF "choices" \notin DOMAIN data THEN [raised |-> FALSE, value |-> << >>]
    ELSE IF \E i \in 1..Len(data.choices) : ~HasContent(data.choices[i])
        THEN [raised |-> FALSE, value |-> << >>]
    ELSE [raised |-> FALSE,
          value |-> [i \in 1..Len(data.choices) |-> data.choices[i].message.content]]

\* read_content: [] without "choices"; otherwise the list comprehension, which
\* raises KeyError at the first choice without message.content.
read_content(data) ==
    IF "choices" \notin DOMAIN data THEN [raised |-> FALSE, value |-> << >>]
    ELSE IF \E i \in 1..Len(data.choices) : ~HasContent(data.choices[i])
        THEN [raised |-> TRUE, value |-> <<"KeyError">>]
    ELSE [raised |-> FALSE,
          value |-> [i \in 1..Len(data.choices) |-> data.choices[i].message.content]]

\* An exception nobody catches: the interpreter prints the traceback to stderr
\* and the process ends with status 1.
Crash(e) ==
    /\ raised' = e
    /\ pc' = "exited"
    /\ exit_code' = <<1>>

VisionRetryPost(outcome) ==
    IF outcome = ConnectionError THEN "post" ELSE "json"

\* Where make_text_image_request goes after requests.post: on to
\* response.json(), or out with the exception.
VisionAfterPost(outcome) ==
    IF outcome = ConnectionError THEN "crash" ELSE "json"

SegUnchanged ==
    UNCHANGED <<orig_np, segmentation_results, overlay, label_to_color, mask_np,
                binary_mask, blended, saved, seenAll, seenPainted>>

\* encode_image, called first thing by make_text_image_request
EncodeImage ==
    /\ script = "vision" /\ pc = "encode"
    /\ IF ~file.exists
       THEN /\ Crash(<<"FileNotFoundError">>)
            /\ UNCHANGED base64_image
       ELSE /\ base64_image' = B64Encode(file.bytes)
            /\ pc' = "post"
            /\ UNCHANGED <<raised, exit_code>>
    /\ UNCHANGED <<script, file, posts, response, stdout, response_data, contents, idx>>
    /\ SegUnchanged

\* requests.post(...) in make_text_image_request
VisionPost ==
    /\ script = "vision" /\ pc = "post"
    /\ posts' = posts + 1
    /\ \E outcome \in VisionResponses \cup {ConnectionError} :
        LET next == VisionAfterPost(outcome)
        IN  IF next = "crash"
            THEN /\ Crash(<<"ConnectionError">>)
                 /\ UNCHANGED response
            ELSE /\ pc' = next
                 /\ response' = IF outcome = ConnectionError THEN response ELSE outcome
                 /\ UNCHANGED <<raised, exit_code>>
    /\ UNCHANGED <<script, file, stdout, base64_image, response_data, contents, idx>>
    /\ SegUnchanged

\* response_data = response.json(); return response_data
VisionJson ==
    /\ script = "vision" /\ pc = "json"
    /\ IF ~response.is_json
       THEN /\ Crash(<<"JSONDecodeError">>)
            /\ UNCHANGED response_data
       ELSE /\ response_data' = response.json
            /\ pc' = "read"
            /\ UNCHANGED <<raised, exit_code>>
    /\ UNCHANGED <<script, file, posts, response, stdout, base64_image, contents, idx>>
    /\ SegUnchanged

\* read_content(response_data), evaluated before the for loop's first iteration
VisionRead ==
    /\ script = "vision" /\ pc = "read"
    /\ LET r == read_content(response_data)
       IN  IF r.raised
           THEN /\ Crash(r.value)
                /\ UNCHANGED <<contents, idx>>
           ELSE /\ contents' = r.value
                /\ idx' = 1
                /\ pc' = "print"
                /\ UNCHANGED <<raised, exit_code>>
    /\ UNCHANGED <<script, file, posts, response, stdout, base64_image, response_data>>
    /\ SegUnchanged

Separator == "----------------------------------------"

\* one iteration of the for loop of __main__
VisionPrint ==
    /\ script = "vision" /\ pc = "print"
    /\ idx <= Len(contents)
    /\ stdout' = stdout \o << <<idx - 1, contents[idx]>>, Separator >>
    /\ idx' = idx + 1
    /\ UNCHANGED <<script, pc, file, posts, response, raised, exit_code, base64_image,
                   response_data, contents>>
    /\ SegUnchanged

\* print("Done") and the end of the script
VisionDone ==
    /\ script = "vision" /\ pc = "print"
    /\ idx > Len(contents)
    /\ stdout' = Append(stdout, "Done")
    /\ pc' = "exited"
    /\ exit_code' = <<0>>
    /\ UNCHANGED <<script, file, posts, response, raised, base64_image, response_data,
                   contents, idx>>
    /\ SegUnchanged

-----------------------------------------------------------------------------
(* semantic-segmentation-huggingface-api.py *)

MessageWithoutText(status_code, text) ==
    <<"R","e","q","u","e","s","t"," ","f","a","i","l","e","d",":"," ">>
    \o IntStr(status_code)

\* f"Request failed: {response.status_code}, {response.text}"
RequestFailedMessage(status_code, text) ==
    <<"R","e","q","u","e","s","t"," ","f","a","i","l","e","d",":"," ">>
    \o IntStr(status_code) \o <<",", " ">> \o text

ThresholdInclusive(mask) == [p \in DOMAIN mask |-> mask[p] >= MaskThreshold]

\* binary_mask = mask_np > 128
Threshold(mask) == [p \in DOMAIN mask |-> mask[p] > MaskThreshold]

AssignColorOffByOne(map, label) ==
    IF label \in DOMAIN map THEN map
    ELSE (label :> palette[((Cardinality(DOMAIN map) + 1) % Len(palette)) + 1]) @@ map

\* if label not in label_to_color:
\*     label_to_color[label] = palette[len(label_to_color) % len(palette)]
AssignColor(map, label) ==
    IF label \in DOMAIN map THEN map
    ELSE (label :> palette[(Cardinality(DOMAIN map) % Len(palette)) + 1]) @@ map

PaintUnpainted(buffer, mask, color) ==
    [p \in DOMAIN buffer |-> IF mask[p] /\ buffer[p] = Black THEN color ELSE buffer[p]]

\* overlay[binary_mask] = color
Paint(buffer, mask, color) ==
    [p \in DOMAIN buffer |-> IF mask[p] THEN color ELSE buffer[p]]

\* result.get("label", "unknown")
LabelOf(result) == IF "label" \in DOMAIN result THEN result.label ELSE "unknown"

\* Image.open(io.BytesIO(mask_bytes)): no image can be identified in no bytes.
\* The image container is not modelled: a mask file's bytes are its pixels.
ImageOpens(bytes) == Len(bytes) > 0

\* The if / elif / else on the type of mask_data
DecodeMask(mask_data) ==
    IF mask_data.type = "str" THEN
        LET mask_bytes == B64Decode(mask_data.value)
        IN  IF ImageOpens(mask_bytes)
            THEN [outcome |-> "decoded", image |-> mask_bytes]
            ELSE [outcome |-> "raised", image |-> << >>]
    ELSE IF mask_data.type = "Image" THEN [outcome |-> "decoded", image |-> mask_data.value]
    ELSE [outcome |-> "skipped", image |-> << >>]

LoopBodyColorFirst(st, result) ==
    LET label == LabelOf(result)
        d == DecodeMask(result.mask)
        map == AssignColor(st.label_to_color, label)
    IN  IF d.outcome # "decoded"
        THEN [outcome |-> d.outcome, overlay |-> st.overlay, label_to_color |-> map,
              mask_np |-> st.mask_np, binary_mask |-> st.binary_mask]
        ELSE [outcome |-> "painted",
              overlay |-> Paint(st.overlay, Threshold(d.image), map[label]),
              label_to_color |-> map,
              mask_np |-> d.image, binary_mask |-> Threshold(d.image)]

\* One iteration of the for loop of plot_segmentation_map on the state
\* st = [overlay, label_to_color, mask_np, binary_mask].
LoopBody(st, result) ==
    LET label == LabelOf(result)
        d == DecodeMask(result.mask)
    IN  IF d.outcome # "decoded"
        THEN [outcome |-> d.outcome, overlay |-> st.overlay,
              label_to_color |-> st.label_to_color,
              mask_np |-> st.mask_np, binary_mask |-> st.binary_mask]
        ELSE LET map == AssignColor(st.label_to_color, label)
             IN  [outcome |-> "painted",
                  overlay |-> Paint(st.overlay, Threshold(d.image), map[label]),
                  label_to_color |-> map,
                  mask_np |-> d.image, binary_mask |-> Threshold(d.image)]

\* round(num / den): to the nearest integer, a tie to the even one
RoundHalfEven(num, den) ==
    LET q == num \div den
        r == num % den
    IN  IF 2 * r > den \/ (2 * r = den /\ q % 2 = 1) THEN q + 1 ELSE q

BlendChannelRounded(o, c) ==
    RoundHalfEven(AlphaNum * o + (AlphaDen - AlphaNum) * c, AlphaDen) % UInt8

\* (alpha * orig_np + (1 - alpha) * overlay).astype(np.uint8) on one channel:
\* the float is exact (alpha = 0.5), the cast drops its fraction.
BlendChannel(o, c) ==
    ((AlphaNum * o + (AlphaDen - AlphaNum) * c) \div AlphaDen) % UInt8

Blend(orig, over) ==
    [p \in DOMAIN orig |-> [ch \in 1..3 |-> BlendChannel(orig[p][ch], over[p][ch])]]

\* Where the script goes after requests.post in query_image: on to the status
\* check, or with the exception to the except clause of __main__.
SegAfterPost(outcome) ==
    IF outcome = ConnectionError THEN "except" ELSE "check"

\* if response.status_code != 200
RequestFailed(status_code) == status_code # StatusOK

VisionUnchanged == UNCHANGED <<base64_image, response_data, contents>>
LoopUnchanged ==
    UNCHANGED <<overlay, label_to_color, mask_np, binary_mask, seenAll, seenPainted>>

\* original_image = Image.open(image_path): the first statement of __main__,
\* outside the try.
SegOpenImage ==
    /\ script = "segmentation" /\ pc = "open"
    /\ IF ~file.exists
       THEN /\ Crash(<<"FileNotFoundError">>)
            /\ UNCHANGED orig_np
       ELSE IF ~ImageOpens(file.bytes)
       THEN /\ Crash(<<"UnidentifiedImageError">>)
            /\ UNCHANGED orig_np
       ELSE /\ \E img \in OrigImages : orig_np' = img
            /\ pc' = "post"
            /\ UNCHANGED <<raised, exit_code>>
    /\ UNCHANGED <<script, file, posts, response, stdout, idx, segmentation_results,
                   blended, saved>>
    /\ VisionUnchanged /\ LoopUnchanged

\* query_image up to and including requests.post
SegPost ==
    /\ script = "segmentation" /\ pc = "post"
    /\ posts' = posts + 1
    /\ \E outcome \in SegResponses \cup {ConnectionError} :
        /\ pc' = SegAfterPost(outcome)
        /\ IF outcome = ConnectionError
           THEN /\ raised' = <<"ConnectionError">>
                /\ UNCHANGED response
           ELSE /\ response' = outcome
                /\ UNCHANGED raised
    /\ UNCHANGED <<script, file, stdout, exit_code, idx, orig_np, segmentation_results,
                   blended, saved>>
    /\ VisionUnchanged /\ LoopUnchanged

\* The rest of query_image: raise on a status other than 200, else
\* return response.json(), which raises on a body that is no JSON.
SegCheck ==
    /\ script = "segmentation" /\ pc = "check"
    /\ IF RequestFailed(response.status_code)
       THEN /\ raised' = RequestFailedMessage(response.status_code, response.text)
            /\ pc' = "except"
            /\ UNCHANGED segmentation_results
       ELSE IF ~response.is_json
       THEN /\ raised' = <<"JSONDecodeError">>
            /\ pc' = "except"
            /\ UNCHANGED segmentation_results
       ELSE /\ segmentation_results' = response.json
            /\ pc' = "dump"
            /\ UNCHANGED raised
    /\ UNCHANGED <<script, file, posts, response, stdout, exit_code, idx, orig_np,
                   blended, saved>>
    /\ VisionUnchanged /\ LoopUnchanged

\* print("API Response:"); print(json.dumps(segmentation_results, indent=2))
SegDump ==
    /\ script = "segmentation" /\ pc = "dump"
    /\ stdout' = stdout \o <<"API Response:", segmentation_results>>
    /\ pc' = "plot"
    /\ UNCHANGED <<script, file, posts, response, raised, exit_code, idx, orig_np,
                   segmentation_results, blended, saved>>
    /\ VisionUnchanged /\ LoopUnchanged

\* except Exception as e: print(e); exit(1)
SegExcept ==
    /\ script = "segmentation" /\ pc = "except"
    /\ stdout' = Append(stdout, raised)
    /\ pc' = "exited"
    /\ exit_code' = <<1>>
    /\ UNCHANGED <<script, file, posts, response, raised, idx, orig_np,
                   segmentation_results, blended, saved>>
    /\ VisionUnchanged /\ LoopUnchanged

\* plot_segmentation_map up to the for loop
PlotStart ==
    /\ script = "segmentation" /\ pc = "plot"
    /\ overlay' = [p \in DOMAIN orig_np |-> Black]
    /\ label_to_color' = << >>
    /\ idx' = 1
    /\ pc' = "loop"
    /\ UNCHANGED <<script, file, posts, response, raised, stdout, exit_code, orig_np,
                   segmentation_results, mask_np, binary_mask, blended, saved,
                   seenAll, seenPainted>>
    /\ VisionUnchanged

AppendNew(seq, x) == IF \E i \in 1..Len(seq) : seq[i] = x THEN seq ELSE Append(seq, x)

LoopState == [overlay |-> overlay, label_to_color |-> label_to_color,
              mask_np |-> mask_np, binary_mask |-> binary_mask]

\* The effect of one iteration on the variables, for the result it is given
Iterate(result) ==
    LET r == LoopBody(LoopState, result)
    IN  /\ overlay' = r.overlay
        /\ label_to_color' = r.label_to_color
        /\ mask_np' = r.mask_np
        /\ binary_mask' = r.binary_mask
        /\ seenAll' = AppendNew(seenAll, LabelOf(result))
        /\ seenPainted' = IF r.outcome = "painted"
                          THEN AppendNew(seenPainted, LabelOf(result))
                          ELSE seenPainted
        /\ idx' = idx + 1
        /\ IF r.outcome = "raised"
           THEN /\ Crash(<<"UnidentifiedImageError">>)
                /\ UNCHANGED stdout
           ELSE /\ stdout' = IF r.outcome = "skipped"
                             THEN Append(stdout, <<"Unexpected mask type for",
                                                   LabelOf(result), result.mask.type>>)
                             ELSE stdout
                /\ UNCHANGED <<pc, raised, exit_code>>

\* one iteration of the for loop of plot_segmentation_map
PlotLoop ==
    /\ script = "segmentation" /\ pc = "loop"
    /\ idx <= Len(segmentation_results)
    /\ Iterate(segmentation_results[idx])
    /\ UNCHANGED <<script, file, posts, response, orig_np, segmentation_results,
                   blended, saved>>
    /\ VisionUnchanged

\* plot_segmentation_map after the loop: blend, show, legend, save, print
PlotFinish ==
    /\ script = "segmentation" /\ pc = "loop"
    /\ idx > Len(segmentation_results)
    /\ blended' = Blend(orig_np, overlay)
    /\ saved' = [done |-> TRUE, image |-> blended', legend |-> DOMAIN label_to_color]
    /\ stdout' = Append(stdout, "Segmentation map saved as segmentation_map.png")
    /\ pc' = "done"
    /\ UNCHANGED <<script, file, posts, response, raised, exit_code, idx, orig_np,
                   segmentation_results>>
    /\ VisionUnchanged /\ LoopUnchanged

\* print("Done") and the end of the script
SegDone ==
    /\ script = "segmentation" /\ pc = "done"
    /\ stdout' = Append(stdout, "Done")
    /\ pc' = "exited"
    /\ exit_code' = <<0>>
    /\ UNCHANGED <<script, file, posts, response, raised, idx, orig_np,
                   segmentation_results, blended, saved>>
    /\ VisionUnchanged /\ LoopUnchanged

-----------------------------------------------------------------------------
(* A run of either script *)

NotStarted ==
    /\ posts = 0
    /\ response = NoResponse
    /\ raised = NoValue
    /\ stdout = << >>
    /\ exit_code = << >>
    /\ base64_image = NoValue
    /\ response_data = NoValue
    /\ contents = << >>
    /\ idx = 1
    /\ segmentation_results = << >>
    /\ overlay = << >>
    /\ label_to_color = << >>
    /\ mask_np = << >>
    /\ binary_mask = << >>
    /\ blended = << >>
    /\ saved = NotSaved
    /\ seenAll = << >>
    /\ seenPainted = << >>

Idle ==
    /\ NotStarted
    /\ orig_np = << >>

Init ==
    /\ script \in {"vision", "segmentation"}
    /\ pc = IF script = "vision" THEN "encode" ELSE "open"
    /\ file \in ScriptFiles
    /\ Idle

Next ==
    \/ EncodeImage
    \/ VisionPost
    \/ VisionJson
    \/ VisionRead
    \/ VisionPrint
    \/ VisionDone
    \/ SegOpenImage
    \/ SegPost
    \/ SegCheck
    \/ SegDump
    \/ SegExcept
    \/ PlotStart
    \/ PlotLoop
    \/ PlotFinish
    \/ SegDone

Spec == Init /\ [][Next]_vars

-----------------------------------------------------------------------------
(* encode_image on every file: byte strings of up to MaxBytes bytes *)

ByteVals == {0, 1, 63, 64, 128, 255}

InitB64 ==
    /\ script = "vision"
    /\ pc = "encode"
    /\ file \in {FileOf(bs) : bs \in SeqsUpTo(ByteVals, MaxBytes)} \cup {NoFile}
    /\ Idle

SpecB64 == InitB64 /\ [][EncodeImage]_vars

-----------------------------------------------------------------------------
(* The segmentation script at the call of plot_segmentation_map, for larger *)
(* responses than Spec enumerates                                           *)

GrayImage(n, v) == [p \in 1..n |-> <<v, v, v>>]

\* The state SegOpenImage, SegPost, SegCheck and SegDump leave when the file
\* decodes to img and the response is 200 with the results rs.
AtPlot(rs, img) ==
    /\ script = "segmentation"
    /\ pc = "plot"
    /\ file = JpegFile
    /\ posts = 1
    /\ response = [status_code |-> StatusOK, text |-> <<"[","]">>, is_json |-> TRUE, json |-> rs]
    /\ raised = NoValue
    /\ stdout = <<"API Response:", rs>>
    /\ exit_code = << >>
    /\ base64_image = NoValue
    /\ response_data = NoValue
    /\ contents = << >>
    /\ idx = 1
    /\ orig_np = img
    /\ segmentation_results = rs
    /\ overlay = << >>
    /\ label_to_color = << >>
    /\ mask_np = << >>
    /\ binary_mask = << >>
    /\ blended = << >>
    /\ saved = NotSaved
    /\ seenAll = << >>
    /\ seenPainted = << >>

PlotNext ==
    \/ PlotStart
    \/ PlotLoop
    \/ PlotFinish
    \/ SegDone

\* One result whose mask holds any pixel values 0..255
MaskResults ==
    {<<[label |-> "road", mask |-> StrMask(B64Encode(px))]>> : px \in [1..MaskPix -> 0..255]}

InitMask == \E rs \in MaskResults : AtPlot(rs, GrayImage(MaskPix, 100))

SpecMask == InitMask /\ [][PlotNext]_vars

LabelNames == <<"road", "sky", "car", "tree", "wall", "floor", "person", "grass",
                "sign", "fence", "pole", "bus", "lamp", "door">>

\* k results with the first k label names, the last of them marking the one
\* pixel: the overlay pixel ends with the k-th palette colour (black for k = 0).
ResultsPainting(k) ==
    [i \in 1..k |-> [label |-> LabelNames[i],
                     mask |-> StrMask(B64Encode(IF i = k THEN <<255>> ELSE <<0>>))]]

\* Every original value 0..255 under every colour the overlay can hold
InitBlend ==
    \E o \in 0..255, k \in 0..Len(palette) : AtPlot(ResultsPainting(k), GrayImage(1, o))

SpecBlend == InitBlend /\ [][PlotNext]_vars

-----------------------------------------------------------------------------
(* plot_segmentation_map called directly on an iterable of up to           *)
(* MaxColorResults results, which yields its items as the loop asks for    *)
(* them. Label names are interchangeable: a label not seen before is the   *)
(* next unused name of LabelNames. At most MaxSkips of the results carry a *)
(* mask of an unexpected type.                                             *)

Range(seq) == {seq[i] : i \in 1..Len(seq)}

NextLabels ==
    Range(seenAll) \cup (IF Len(seenAll) < Len(LabelNames)
                         THEN {LabelNames[Len(seenAll) + 1]} ELSE {})

\* Every diagnostic printed so far is one skipped result: here nothing else
\* prints before the loop ends.
ColorMasks ==
    {ImageMask(<<255>>)} \cup (IF Len(stdout) < MaxSkips THEN {NullMask} ELSE {})

InitColor ==
    /\ script = "segmentation"
    /\ pc = "plot"
    /\ file = JpegFile
    /\ NotStarted
    /\ orig_np = GrayImage(1, 100)

\* one iteration of the for loop, on the item the iterable yields
PlotLoopFed ==
    /\ script = "segmentation" /\ pc = "loop"
    /\ idx <= MaxColorResults
    /\ \E l \in NextLabels, m \in ColorMasks : Iterate([label |-> l, mask |-> m])
    /\ UNCHANGED <<script, file, posts, response, orig_np, segmentation_results,
                   blended, saved>>
    /\ VisionUnchanged

NextColor ==
    \/ PlotStart
    \/ PlotLoopFed
    \/ PlotFinish

SpecColor == InitColor /\ [][NextColor]_vars

-----------------------------------------------------------------------------
(* Properties *)

ServerErrorText == <<"s","e","r","v","e","r"," ","e","r","r","o","r">>

\* C1: in the segmentation script, once query_image has seen a response whose
\* status is not 200, the error raised carries the status code and the body
\* text (500 and "server error" for such a response), plot_segmentation_map
\* is never entered, nothing is rendered or saved, and the process ends with
\* the error printed and exit code 1.
C1_FailedQueryExits ==
    (script = "segmentation" /\ response.status_code \notin {0, StatusOK} /\ pc # "check") =>
        /\ pc \in {"except", "exited"}
        /\ Contains(raised, IntStr(response.status_code))
        /\ Contains(raised, response.text)
        /\ (response.status_code = 500 => Contains(raised, <<"5","0","0">>))
        /\ overlay = << >>
        /\ ~saved.done
        /\ (pc = "exited" => exit_code = <<1>> /\ stdout = <<raised>>)

C1_Witness ==
    /\ script = "segmentation"
    /\ pc = "exited"
    /\ response.status_code = 500
    /\ response.text = ServerErrorText
    /\ Contains(raised, ServerErrorText)
    /\ exit_code = <<1>>

\* read_content has run: it returned (the loop is running or the script ended
\* normally) or it raised.
ReadReturned == script = "vision" /\ (pc = "print" \/ exit_code = <<0>>)
ReadRaised == script = "vision" /\ pc = "exited" /\ raised = <<"KeyError">>

\* The statement of C2 as claimed: read_content returns for every response, [] without
\* "choices" and the contents in order otherwise.
C2_Original ==
    (ReadReturned \/ ReadRaised) =>
        /\ ReadReturned
        /\ IF "choices" \notin DOMAIN response_data THEN contents = << >>
           ELSE /\ Len(contents) = Len(response_data.choices)
                /\ \A i \in 1..Len(contents) :
                    /\ HasContent(response_data.choices[i])
                    /\ contents[i] = response_data.choices[i].message.content

\* C2: read_content returns the empty sequence for a response without
\* "choices"; for a response with "choices" whose every choice carries
\* message.content it returns their contents, one per choice, in order; and
\* when some choice lacks message.content it raises instead of returning.
C2_ReadContent ==
    (ReadReturned \/ ReadRaised) =>
        IF "choices" \notin DOMAIN response_data
        THEN ReadReturned /\ contents = << >>
        ELSE IF \A i \in 1..Len(response_data.choices) : HasContent(response_data.choices[i])
        THEN /\ ReadReturned
             /\ Len(contents) = Len(response_data.choices)
             /\ \A i \in 1..Len(contents) :
                    contents[i] = response_data.choices[i].message.content
        ELSE ReadRaised /\ contents = << >>

C2_Witness ==
    /\ ReadReturned
    /\ "choices" \in DOMAIN response_data
    /\ contents = <<"a", "b">>

\* What the vision script prints for the contents cs: index and content, then
\* the separator, for each; then "Done".
Printed(cs) ==
    [i \in 1..(2 * Len(cs) + 1) |->
        IF i = 2 * Len(cs) + 1 THEN "Done"
        ELSE IF i % 2 = 1 THEN <<(i - 1) \div 2, cs[(i + 1) \div 2]>>
        ELSE Separator]

ContentsOf(json) ==
    IF "choices" \notin DOMAIN json THEN << >>
    ELSE [i \in 1..Len(json.choices) |-> json.choices[i].message.content]

WellFormed(json) ==
    "choices" \in DOMAIN json => \A i \in 1..Len(json.choices) : HasContent(json.choices[i])

\* The statement of C6 as claimed: every run of the vision script ends with
\* exit code 0 and "Done" printed last.
C6_Original ==
    (script = "vision" /\ pc = "exited") =>
        /\ exit_code = <<0>>
        /\ Len(stdout) > 0
        /\ stdout[Len(stdout)] = "Done"

\* C6: a run of the vision script prints each content in order, then "Done",
\* and exits with code 0 exactly when the image file exists, the POST returns
\* a response, its body is JSON, and every choice (if any) carries
\* message.content; every other run ends with an unhandled exception: exit
\* code 1, nothing printed, no "Done".
C6_VisionExit ==
    (script = "vision" /\ pc = "exited") =>
        IF /\ file.exists
           /\ response.status_code # 0
           /\ response.is_json
           /\ WellFormed(response.json)
        THEN exit_code = <<0>> /\ stdout = Printed(ContentsOf(response.json))
        ELSE exit_code = <<1>> /\ stdout = << >> /\ raised # NoValue

C6_Witness ==
    /\ script = "vision"
    /\ pc = "exited"
    /\ exit_code = <<0>>
    /\ stdout = << <<0, "a">>, Separator, <<1, "b">>, Separator, "Done" >>

\* The image file can be read by the script's first step: the vision script
\* reads its bytes, the segmentation script opens it as an image.
FileReadable ==
    /\ file.exists
    /\ script = "segmentation" => ImageOpens(file.bytes)

\* The statement of C10 as claimed: every execution of either script issues
\* the POST exactly once.
C10_Original == pc = "exited" => posts = 1

\* C10: a script run issues the POST at most once, so never again after a
\* failed call; a run that ended issued it exactly once if its image file
\* could be read, and not at all otherwise.
C10_OnePost ==
    /\ posts <= 1
    /\ pc = "exited" => (posts = 1 <=> FileReadable)
    /\ pc \notin {"encode", "open", "post", "exited"} => posts = 1

C10_Witness ==
    /\ pc = "exited"
    /\ posts = 1
    /\ exit_code = <<1>>
    /\ \/ raised = <<"ConnectionError">>
       \/ response.status_code \notin {0, StatusOK}

\* The results the loop has been through so far
Iterated == SubSeq(segmentation_results, 1, idx - 1)

\* The grayscale pixels of a result's mask, << >> if the loop does not paint it
MaskPixels(result) ==
    IF result.mask.type = "str" THEN B64Decode(result.mask.value)
    ELSE IF result.mask.type = "Image" THEN result.mask.value
    ELSE << >>

\* The result is not skipped and its binary mask is True at pixel p
Marks(result, p) ==
    /\ p \in DOMAIN MaskPixels(result)
    /\ MaskPixels(result)[p] > 128

\* Index of the last iterated result that marks p, 0 if there is none
LastMarking(p) ==
    LET S == {i \in 1..Len(Iterated) : Marks(Iterated[i], p)}
    IN  IF S = {} THEN 0 ELSE CHOOSE i \in S : \A j \in S : j <= i

\* C8: at every point of the loop of plot_segmentation_map and after it, each
\* overlay pixel holds the colour assigned to the label of the last
\* non-skipped result whose binary mask is True there, unmixed, and is black
\* if no such result exists.
C8_LastWriteWins ==
    script = "segmentation" =>
        \A p \in DOMAIN overlay :
            overlay[p] = IF LastMarking(p) = 0 THEN Black
                         ELSE label_to_color[LabelOf(Iterated[LastMarking(p)])]

C8_Witness ==
    /\ script = "segmentation"
    /\ saved.done
    /\ \E p \in DOMAIN overlay : \E i \in 1..Len(Iterated), j \in 1..Len(Iterated) :
        /\ i < j
        /\ Marks(Iterated[i], p) /\ Marks(Iterated[j], p)
        /\ LabelOf(Iterated[i]) # LabelOf(Iterated[j])
        /\ overlay[p] = label_to_color[LabelOf(Iterated[j])]
        /\ overlay[p] # label_to_color[LabelOf(Iterated[i])]

Recognised(result) == result.mask.type \in {"str", "Image"}

\* The overlay and the colour map after the loop has gone through rs,
\* starting from st
RECURSIVE RunLoop(_, _)
RunLoop(st, rs) ==
    IF Len(rs) = 0 THEN st
    ELSE LET r == LoopBody(st, rs[1])
         IN  RunLoop([overlay |-> r.overlay, label_to_color |-> r.label_to_color,
                      mask_np |-> r.mask_np, binary_mask |-> r.binary_mask],
                     Tail(rs))

LoopStart == [overlay |-> [p \in DOMAIN orig_np |-> Black], label_to_color |-> << >>,
              mask_np |-> << >>, binary_mask |-> << >>]

\* C9: a result whose mask is neither a string nor an image does not end the
\* run and leaves no trace: at every point of the loop and after it, the
\* overlay and the colour map are those the loop produces on the iterated
\* results with such entries removed, the map (and the legend made of it)
\* holds exactly the labels of the entries that were painted, and the run
\* ends abnormally only on an entry whose string does not decode.
C9_SkippedLeavesNoTrace ==
    (script = "segmentation" /\ pc \in {"loop", "done", "exited"} /\ overlay # << >>) =>
        LET kept == SelectSeq(Iterated, Recognised)
            final == RunLoop(LoopStart, kept)
        IN  /\ overlay = final.overlay
            /\ label_to_color = final.label_to_color
            /\ DOMAIN label_to_color =
                   {LabelOf(Iterated[i]) : i \in {j \in 1..Len(Iterated) :
                        Len(MaskPixels(Iterated[j])) > 0}}
            /\ saved.done => saved.legend = DOMAIN label_to_color
            /\ exit_code = <<1>> =>
                   \E i \in 1..Len(Iterated) :
                       Recognised(Iterated[i]) /\ Len(MaskPixels(Iterated[i])) = 0
            /\ (pc = "exited" /\ exit_code = <<0>>) => Iterated = segmentation_results

C9_Witness ==
    /\ script = "segmentation"
    /\ pc = "exited"
    /\ exit_code = <<0>>
    /\ Len(segmentation_results) = 2
    /\ ~Recognised(segmentation_results[1])
    /\ LabelOf(segmentation_results[1]) = "sky"
    /\ Recognised(segmentation_results[2])
    /\ LabelOf(segmentation_results[2]) = "road"
    /\ Marks(segmentation_results[2], 1)
    /\ DOMAIN label_to_color = {"road"}
    /\ label_to_color["road"] = palette[1]
    /\ overlay[1] = palette[1]
    /\ saved.legend = {"road"}

PaletteCycle(k) == palette[((k - 1) % 10) + 1]

C3_Assigned ==
    (script = "segmentation" /\ pc \in {"loop", "done"}) =>
        /\ \A k \in 1..Len(seenPainted) :
            /\ seenPainted[k] \in DOMAIN label_to_color
            /\ label_to_color[seenPainted[k]] = PaletteCycle(k)
        /\ DOMAIN label_to_color = Range(seenPainted)
        /\ Cardinality(DOMAIN label_to_color) = Len(seenPainted)
        /\ Len(seenPainted) >= 11 =>
               label_to_color[seenPainted[11]] = label_to_color[seenPainted[1]]

C3_Stable ==
    \A l \in DOMAIN label_to_color :
        /\ l \in DOMAIN label_to_color'
        /\ label_to_color'[l] = label_to_color[l]

C4_StrictThreshold ==
    (script = "segmentation" /\ idx > 1) =>
        /\ mask_np = MaskPixels(segmentation_results[1])
        /\ DOMAIN binary_mask = DOMAIN mask_np
        /\ \A p \in DOMAIN mask_np :
            /\ mask_np[p] \in 129..255 => binary_mask[p] = TRUE
            /\ mask_np[p] \in 0..128 => binary_mask[p] = FALSE
            /\ overlay[p] = IF mask_np[p] \in 129..255 THEN palette[1] ELSE Black

C4_Witness ==
    /\ script = "segmentation"
    /\ idx > 1
    /\ mask_np[1] = 128
    /\ binary_mask[1] = FALSE
    /\ overlay[1] = Black

\* The statement of C5 as claimed: every channel of the blended image is
\* round(0.5 * o + 0.5 * c).
C5_Original ==
    saved.done =>
        \A p \in DOMAIN blended : \A ch \in 1..3 :
            blended[p][ch] = RoundHalfEven(orig_np[p][ch] + overlay[p][ch], 2)

\* C5: every channel of the blended image is 0.5 * o + 0.5 * c with its
\* fraction dropped, floor((o + c) / 2), for the original value o and the
\* overlay value c: for an original of 100 everywhere, 165, 62, 87 under
\* palette[0] = (230, 25, 75) and 50 where nothing is painted.
C5_BlendTruncates ==
    saved.done =>
        /\ DOMAIN blended = DOMAIN orig_np
        /\ \A p \in DOMAIN blended : \A ch \in 1..3 :
            /\ 2 * blended[p][ch] <= orig_np[p][ch] + overlay[p][ch]
            /\ orig_np[p][ch] + overlay[p][ch] <= 2 * blended[p][ch] + 1
            /\ (orig_np[p][ch] = 100 /\ overlay[p] = Black) => blended[p][ch] = 50
        /\ saved.image = blended

C5_Witness ==
    /\ saved.done
    /\ orig_np = <<<<100, 100, 100>>>>
    /\ overlay = <<palette[1]>>
    /\ blended = <<<<165, 62, 87>>>>

\* C7: base64-decoding the string encode_image returns gives back exactly
\* the bytes of the file, for the empty file and every length, divisible by
\* 3 or not; the string is 4 characters per started group of 3 bytes.
C7_RoundTrip ==
    (script = "vision" /\ pc = "post") =>
        /\ B64Decode(base64_image) = file.bytes
        /\ Len(base64_image) = 4 * ((Len(file.bytes) + 2) \div 3)

C7_Witness ==
    /\ script = "vision"
    /\ pc = "post"
    /\ file.bytes = <<255>>
    /\ base64_image = <<"/", "w", "=", "=">>

====
